---- MODULE Spec2Model ----
(***************************************************************************)
(* memstore: a local memory store kept in two line-oriented text files, a  *)
(* record log and a vector log (src/src/memstore/src/main.rs).             *)
(*                                                                         *)
(* Strings are sequences of characters, a character being a one-element    *)
(* string; LF and CR stand for the newline and carriage-return characters. *)
(* A file is [exists, lines]: the raw lines between newline characters.    *)
(* An f32 is NaN or a fixed-point number in units of 1/10000; an i64 whose  *)
(* overflow matters is a tuple of four 16-bit limbs, least significant     *)
(* first, in two's complement.                                             *)
(***************************************************************************)
EXTENDS Integers, Sequences, FiniteSets, TLC

VARIABLES
    recLog,     \* the record log file
    vecLog,     \* the vector log file
    nowMs,      \* the wall clock, milliseconds since the epoch
    last,       \* outcome of the last invocation (exit status, rows printed, ...)
    arg,        \* input of the pure-function specifications
    ret         \* output of the pure-function specifications

vars == <<recLog, vecLog, nowMs, last, arg, ret>>

(***************************************************************************)
(* Bounds of the model                                                     *)
(***************************************************************************)
MaxLen == 3         \* longest string drawn for escape / unescape
MaxKindLen == 2     \* longest kind drawn for the record round trip
MaxRecords == 2     \* add is invoked while both logs hold fewer lines
MaxTime == 2        \* the clock runs over seconds 1..MaxTime
MaxStore == 11      \* most records of a store drawn for the ranking

(***************************************************************************)
(* Program constants                                                       *)
(***************************************************************************)
VECTOR_DIM == 256
DefaultSearchLimit == 3
DefaultRecentLimit == 20
DefaultKeep == 5000
HNSW_EF_SEARCH == 50

(***************************************************************************)
(* Characters and strings                                                  *)
(***************************************************************************)
LF == "LF"
CR == "CR"
BSL == "\\"
PIPE == "|"
SP == " "

Digits == <<"0", "1", "2", "3", "4", "5", "6", "7", "8", "9">>

DigitValue == [ch \in {Digits[d] : d \in 1..10} |-> (CHOOSE d \in 1..10 : Digits[d] = ch) - 1]

IsDigit(ch) == ch \in DOMAIN DigitValue

DigitVal(ch) == DigitValue[ch]

None == [ok |-> FALSE]
Some(v) == [ok |-> TRUE, val |-> v]

\* Iterator::collect into a Vec: the elements are computed once, in order.
Collect(s) == s \o <<>>

\* All strings over alphabet A of length at most n.
RECURSIVE StringsUpTo(_, _)
StringsUpTo(A, n) ==
    IF n = 0 THEN {<<>>}
    ELSE LET shorter == StringsUpTo(A, n - 1)
         IN  shorter \cup {Append(s, c) : s \in shorter, c \in A}

(***************************************************************************)
(* escape / unescape                                                       *)
(***************************************************************************)
\* Mutant: the backslash itself is not escaped.
RECURSIVE escape_NoBackslash(_)
escape_NoBackslash(input) ==
    IF input = <<>> THEN <<>>
    ELSE LET ch == Head(input)
         IN  (CASE ch = LF -> <<BSL, "n">>
                [] ch = PIPE -> <<BSL, PIPE>>
                [] OTHER -> <<ch>>) \o escape_NoBackslash(Tail(input))

RECURSIVE escape(_)
escape(input) ==
    IF input = <<>> THEN <<>>
    ELSE LET ch == Head(input)
         IN  (CASE ch = BSL -> <<BSL, BSL>>
                [] ch = LF -> <<BSL, "n">>
                [] ch = PIPE -> <<BSL, PIPE>>
                [] OTHER -> <<ch>>) \o escape(Tail(input))

RECURSIVE unescape(_)
unescape(input) ==
    IF input = <<>> THEN <<>>
    ELSE LET ch == Head(input)
             rest == Tail(input)
         IN  IF ch = BSL
             THEN IF rest # <<>>
                  THEN LET next == Head(rest)
                       IN  (CASE next = "n" -> <<LF>>
                              [] next = PIPE -> <<PIPE>>
                              [] next = BSL -> <<BSL>>
                              [] OTHER -> <<BSL, next>>) \o unescape(Tail(rest))
                  ELSE <<BSL>>
             ELSE <<ch>> \o unescape(rest)

(***************************************************************************)
(* Numbers as text                                                         *)
(***************************************************************************)
\* Display of an unsigned integer: its decimal digits.
RECURSIVE FmtNat(_)
FmtNat(n) ==
    IF n < 10 THEN <<Digits[n + 1]>>
    ELSE Append(FmtNat(n \div 10), Digits[(n % 10) + 1])

\* Display of a signed integer.
FmtInt(n) == IF n < 0 THEN <<"-">> \o FmtNat(-n) ELSE FmtNat(n)

RECURSIVE DigitsVal(_)
DigitsVal(s) ==
    IF s = <<>> THEN 0
    ELSE 10 * DigitsVal(SubSeq(s, 1, Len(s) - 1)) + DigitVal(s[Len(s)])

AllDigits(s) == \A i \in 1..Len(s) : IsDigit(s[i])

\* str::parse::<u128>() and str::parse::<usize>(): an optional "+", then one
\* or more digits.  (Values too large for the type do not occur in the model.)
ParseUnsigned(s) ==
    LET body == IF s # <<>> /\ Head(s) = "+" THEN Tail(s) ELSE s
    IN  IF body # <<>> /\ AllDigits(body) THEN Some(DigitsVal(body)) ELSE None

\* str::parse::<i64>(): an optional sign, then one or more digits.
ParseSigned(s) ==
    LET neg == s # <<>> /\ Head(s) = "-"
        body == IF s # <<>> /\ Head(s) \in {"+", "-"} THEN Tail(s) ELSE s
    IN  IF body # <<>> /\ AllDigits(body)
        THEN Some(IF neg THEN -DigitsVal(body) ELSE DigitsVal(body))
        ELSE None

\* An f32 value: NaN, or v units of 1/10000 (four decimal places stand for
\* the precision of an f32).
NaN == [nan |-> TRUE, v |-> 0]
F32(v) == [nan |-> FALSE, v |-> v]
FOne == 10 * 1000

\* The digits of a fraction of n places, zero-padded on the left.
RECURSIVE FmtFrac(_, _)
FmtFrac(f, n) ==
    IF n = 0 THEN <<>> ELSE Append(FmtFrac(f \div 10, n - 1), Digits[(f % 10) + 1])

RECURSIVE StripZeros(_)
StripZeros(s) ==
    IF s # <<>> /\ s[Len(s)] = "0" THEN StripZeros(SubSeq(s, 1, Len(s) - 1)) ELSE s

\* Display of an f32 ("{}"): the shortest text that parses back to the value.
FmtF32(w) ==
    IF w.nan THEN <<"N", "a", "N">>
    ELSE LET a == IF w.v < 0 THEN -w.v ELSE w.v
             sign == IF w.v < 0 THEN <<"-">> ELSE <<>>
             frac == StripZeros(FmtFrac(a % FOne, 4))
         IN  sign \o FmtNat(a \div FOne) \o (IF frac = <<>> THEN <<>> ELSE <<".">> \o frac)

\* An f32 with a fixed number of fractional digits ("{:.6}"): the value is
\* rounded to fewer places than an f32 holds, here from four places to three.
FmtF32Fixed(w) ==
    IF w.nan THEN <<"N", "a", "N">>
    ELSE LET a == IF w.v < 0 THEN -w.v ELSE w.v
             sign == IF w.v < 0 THEN <<"-">> ELSE <<>>
             r == (a + 5) \div 10
         IN  sign \o FmtNat(r \div 1000) \o <<".">> \o FmtFrac(r % 1000, 3)

IndexOf(s, ch) ==
    IF \E i \in 1..Len(s) : s[i] = ch
    THEN CHOOSE i \in 1..Len(s) : s[i] = ch /\ \A j \in 1..(i - 1) : s[j] # ch
    ELSE 0

\* The first four fractional digits as units of 1/10000, rounded on the fifth.
FracVal(fp) ==
    LET d(i) == IF i <= Len(fp) THEN DigitVal(fp[i]) ELSE 0
    IN  1000 * d(1) + 100 * d(2) + 10 * d(3) + d(4) + (IF d(5) >= 5 THEN 1 ELSE 0)

\* str::parse::<f32>(): "NaN", or an optional sign, digits, and optionally a
\* point and digits, with at least one digit.  (Exponents, infinities and
\* other spellings of NaN do not occur in the model.)
ParseF32(s) ==
    IF s = <<"N", "a", "N">> THEN Some(NaN)
    ELSE LET neg == s # <<>> /\ Head(s) = "-"
             body == IF s # <<>> /\ Head(s) \in {"+", "-"} THEN Tail(s) ELSE s
             dot == IndexOf(body, ".")
             ip == IF dot = 0 THEN body ELSE SubSeq(body, 1, dot - 1)
             fp == IF dot = 0 THEN <<>> ELSE SubSeq(body, dot + 1, Len(body))
         IN  IF AllDigits(ip) /\ AllDigits(fp) /\ Len(ip) + Len(fp) > 0
             THEN LET a == FOne * DigitsVal(ip) + FracVal(fp)
                  IN  Some(F32(IF neg THEN -a ELSE a))
             ELSE None

(***************************************************************************)
(* Record lines                                                            *)
(***************************************************************************)
Record(id, ts, kind, weight, text) ==
    [id |-> id, ts |-> ts, kind |-> kind, weight |-> weight, text |-> text]

\* str::splitn(n, sep): at most n parts, the last one holding the remainder.
RECURSIVE SplitN(_, _, _)
SplitN(s, n, sep) ==
    LET i == IndexOf(s, sep)
    IN  IF n <= 1 \/ i = 0 THEN <<s>>
        ELSE <<SubSeq(s, 1, i - 1)>> \o SplitN(SubSeq(s, i + 1, Len(s)), n - 1, sep)

\* The parts of s[lo..hi].  The parts of two adjacent ranges join at the
\* boundary (halving keeps the evaluation shallow).
RECURSIVE SplitRange(_, _, _, _)
SplitRange(s, sep, lo, hi) ==
    IF lo > hi THEN <<<<>>>>
    ELSE IF lo = hi THEN (IF s[lo] = sep THEN <<<<>>, <<>>>> ELSE <<<<s[lo]>>>>)
    ELSE LET mid == (lo + hi) \div 2
             L == SplitRange(s, sep, lo, mid)
             R == SplitRange(s, sep, mid + 1, hi)
         IN  SubSeq(L, 1, Len(L) - 1) \o <<L[Len(L)] \o R[1]>> \o SubSeq(R, 2, Len(R))

\* str::split(sep): every part
Split(s, sep) == SplitRange(s, sep, 1, Len(s))

\* "{}|{}|{}|{}|{}" of id, ts, escape(kind), weight, escape(text)
RecordLine(rec) ==
    FmtNat(rec.id) \o <<PIPE>> \o FmtInt(rec.ts) \o <<PIPE>> \o escape(rec.kind)
        \o <<PIPE>> \o FmtF32(rec.weight) \o <<PIPE>> \o escape(rec.text)

parse_record_line(line) ==
    LET parts == SplitN(line, 5, PIPE)
    IN  IF Len(parts) # 5 THEN None
        ELSE LET id == ParseUnsigned(parts[1])
                 ts == ParseSigned(parts[2])
                 weight == ParseF32(parts[4])
             IN  IF id.ok /\ ts.ok /\ weight.ok
                 THEN Some(Record(id.val, ts.val, unescape(parts[3]), weight.val,
                                  unescape(parts[5])))
                 ELSE None

(***************************************************************************)
(* Files                                                                   *)
(***************************************************************************)
NoFile == [exists |-> FALSE, lines |-> <<>>]
File(lines) == [exists |-> TRUE, lines |-> lines]

\* BufRead::lines(): each line without its newline, and without one carriage
\* return before the newline.
ReadLine(raw) ==
    IF raw # <<>> /\ raw[Len(raw)] = CR THEN SubSeq(raw, 1, Len(raw) - 1) ELSE raw

\* line.trim().is_empty()
IsBlank(line) == \A i \in 1..Len(line) : line[i] \in {SP, CR, LF}

\* OpenOptions::append(true).create(true), then one writeln!
AppendLine(file, line) == File(file.lines \o <<line>>)

append_record(file, rec) == AppendLine(file, RecordLine(rec))

\* File::create (truncate), then one writeln! per record
write_records(records) == File([i \in 1..Len(records) |-> RecordLine(records[i])])

RECURSIVE ParsedRecords(_)
ParsedRecords(lines) ==
    IF lines = <<>> THEN <<>>
    ELSE LET line == ReadLine(Head(lines))
             rec == parse_record_line(line)
         IN  (IF ~IsBlank(line) /\ rec.ok THEN <<rec.val>> ELSE <<>>)
                 \o ParsedRecords(Tail(lines))

\* The records of the log, in file order; a missing file is an empty store.
load_records(file) == IF ~file.exists THEN <<>> ELSE ParsedRecords(file.lines)

(***************************************************************************)
(* Tokenizer, hasher, embedder, similarity                                 *)
(***************************************************************************)
Lower == <<"a", "b", "c", "d", "e", "f", "g", "h", "i", "j", "k", "l", "m",
           "n", "o", "p", "q", "r", "s", "t", "u", "v", "w", "x", "y", "z">>
Upper == <<"A", "B", "C", "D", "E", "F", "G", "H", "I", "J", "K", "L", "M",
           "N", "O", "P", "Q", "R", "S", "T", "U", "V", "W", "X", "Y", "Z">>

PosIn(seq, ch) == IF \E i \in 1..Len(seq) : seq[i] = ch
                  THEN CHOOSE i \in 1..Len(seq) : seq[i] = ch ELSE 0

\* char::is_alphanumeric
IsAlphanumeric(ch) == PosIn(Lower, ch) > 0 \/ PosIn(Upper, ch) > 0 \/ IsDigit(ch)

\* char::to_ascii_lowercase
ToAsciiLowercase(ch) == IF PosIn(Upper, ch) > 0 THEN Lower[PosIn(Upper, ch)] ELSE ch

\* The UTF-8 byte of an ASCII letter or digit.
ByteOf(ch) ==
    IF PosIn(Lower, ch) > 0 THEN 96 + PosIn(Lower, ch)
    ELSE IF PosIn(Upper, ch) > 0 THEN 64 + PosIn(Upper, ch)
    ELSE 48 + DigitVal(ch)

RECURSIVE TokenizeFrom(_, _, _)
TokenizeFrom(text, i, buf) ==
    IF i > Len(text) THEN (IF buf # <<>> THEN <<buf>> ELSE <<>>)
    ELSE IF IsAlphanumeric(text[i])
         THEN TokenizeFrom(text, i + 1, Append(buf, ToAsciiLowercase(text[i])))
         ELSE (IF buf # <<>> THEN <<buf>> ELSE <<>>) \o TokenizeFrom(text, i + 1, <<>>)

tokenize(text) == TokenizeFrom(text, 1, <<>>)

RECURSIVE Xor(_, _)
Xor(a, b) ==
    IF a = 0 THEN b
    ELSE IF b = 0 THEN a
    ELSE 2 * Xor(a \div 2, b \div 2) + ((a + b) % 2)

\* A u64 is eight bytes, least significant first.
\* hash.wrapping_mul(0x100000001b3): hash * 0x1b3 + (hash << 40), modulo 2^64.
RECURSIVE MulPrimeFrom(_, _, _)
MulPrimeFrom(hash, i, carry) ==
    IF i > 8 THEN <<>>
    ELSE LET t == hash[i] * 435 + (IF i >= 6 THEN hash[i - 5] ELSE 0) + carry
         IN  <<t % 256>> \o MulPrimeFrom(hash, i + 1, t \div 256)

WrappingMulPrime(hash) == MulPrimeFrom(hash, 1, 0)

\* The offset basis 0xcbf29ce484222325
FnvOffsetBasis == <<37, 35, 34, 132, 228, 156, 242, 203>>

RECURSIVE FnvFrom(_, _, _)
FnvFrom(token, i, hash) ==
    IF i > Len(token) THEN hash
    ELSE FnvFrom(token, i + 1,
                 WrappingMulPrime([hash EXCEPT ![1] = Xor(hash[1], ByteOf(token[i]))]))

fnv1a_hash(token) == FnvFrom(token, 1, FnvOffsetBasis)

\* hash % VECTOR_DIM, for a dimension that divides 2^8
HashIndex(token) == fnv1a_hash(token)[1] % VECTOR_DIM

\* The largest r with r * r <= n, between lo and hi.
RECURSIVE ISqrtBetween(_, _, _)
ISqrtBetween(n, lo, hi) ==
    IF lo >= hi THEN lo
    ELSE LET mid == (lo + hi + 1) \div 2
         IN  IF mid * mid <= n THEN ISqrtBetween(n, mid, hi)
             ELSE ISqrtBetween(n, lo, mid - 1)

ISqrt(n) == ISqrtBetween(n, 0, 46340)

\* The zero vector, one count per token at its hash index, then normalize:
\* every component divided by the square root of the sum of squares.
embed_text(text) ==
    LET tokens == tokenize(text)
        idx == [t \in 1..Len(tokens) |-> HashIndex(tokens[t])]
        count(i) == Cardinality({t \in 1..Len(tokens) : idx[t] = i})
        used == {idx[t] : t \in 1..Len(tokens)}
        sum == LET RECURSIVE Sq(_)
                   Sq(S) == IF S = {} THEN 0
                            ELSE LET i == CHOOSE x \in S : TRUE
                                 IN  count(i) * count(i) + Sq(S \ {i})
               IN  Sq(used)
        norm == ISqrt(sum * FOne * FOne)
    IN  [i \in 1..VECTOR_DIM |->
            IF (i - 1) \in used THEN F32((count(i - 1) * FOne * FOne) \div norm)
            ELSE F32(0)]

\* The texts of the model's invocations, and their embeddings computed once.
KnownTexts == {<<"a">>, <<"b", LF, "a">>, <<"1", PIPE, "b", LF, "a">>, <<>>}
EmbedTable == [t \in KnownTexts |-> embed_text(t)]
Embed(text) == IF text \in KnownTexts THEN EmbedTable[text] ELSE embed_text(text)

\* The sum of a[i].v * b[i].v over the indices in S.
RECURSIVE SumProducts(_, _, _)
SumProducts(a, b, S) ==
    IF S = {} THEN 0
    ELSE LET i == CHOOSE x \in S : TRUE
         IN  a[i].v * b[i].v + SumProducts(a, b, S \ {i})

\* The indices up to n where a is not 0.0: the other terms add nothing to a sum.
Support(a, n) == {i \in 1..n : a[i].nan \/ a[i].v # 0}

\* dot / (sqrt(a_norm) * sqrt(b_norm)) over the common prefix, 0 when a norm is 0
cosine_sim(a, b) ==
    LET n == IF Len(a) < Len(b) THEN Len(a) ELSE Len(b)
        sa == Support(a, n)
        sb == Support(b, n)
    IN  IF (\E i \in sa : a[i].nan) \/ (\E i \in sb : b[i].nan) THEN NaN
        ELSE LET dot == SumProducts(a, b, sa \cap sb)
                 a_norm == SumProducts(a, a, sa)
                 b_norm == SumProducts(b, b, sb)
             IN  IF a_norm = 0 \/ b_norm = 0 THEN F32(0)
                 ELSE F32(((dot \div ISqrt(a_norm)) * FOne) \div ISqrt(b_norm))

(***************************************************************************)
(* Vector lines                                                            *)
(***************************************************************************)
\* v[lo], ",", ..., ",", v[hi], each as "{:.6}"
RECURSIVE JoinValues(_, _, _)
JoinValues(vec, lo, hi) ==
    IF lo > hi THEN <<>>
    ELSE IF lo = hi THEN FmtF32Fixed(vec[lo])
    ELSE LET mid == (lo + hi) \div 2
         IN  JoinValues(vec, lo, mid) \o <<",">> \o JoinValues(vec, mid + 1, hi)

\* The value lists of the model's texts, written once.
ValueListTable == [t \in KnownTexts |-> JoinValues(EmbedTable[t], 1, VECTOR_DIM)]
ValueList(text) ==
    IF text \in KnownTexts THEN ValueListTable[text]
    ELSE JoinValues(embed_text(text), 1, VECTOR_DIM)

\* Mutant: the last component is not written.
VectorLine_Short(rec) ==
    FmtNat(rec.id) \o <<PIPE>> \o FmtNat(VECTOR_DIM) \o <<PIPE>>
        \o JoinValues(Embed(rec.text), 1, VECTOR_DIM - 1)

\* "{id}|{VECTOR_DIM}|" and the components of embed_text(rec.text), each "{:.6}"
VectorLine(rec) ==
    FmtNat(rec.id) \o <<PIPE>> \o FmtNat(VECTOR_DIM) \o <<PIPE>> \o ValueList(rec.text)

ValueLists == {ValueListTable[t] : t \in KnownTexts}

\* .filter_map(|v| v.parse::<f32>().ok()) over parts[lo..hi]
RECURSIVE ParsedValues(_, _, _)
ParsedValues(parts, lo, hi) ==
    IF lo > hi THEN <<>>
    ELSE IF lo = hi
         THEN LET v == ParseF32(parts[lo]) IN IF v.ok THEN <<v.val>> ELSE <<>>
    ELSE LET mid == (lo + hi) \div 2
         IN  ParsedValues(parts, lo, mid) \o ParsedValues(parts, mid + 1, hi)

\* parts[2].split(',').filter_map(|v| v.parse::<f32>().ok()).collect(), or the
\* empty list for an empty field
parse_values(field) ==
    LET fields == Split(field, ",")
    IN  IF field = <<>> THEN <<>> ELSE ParsedValues(fields, 1, Len(fields))

ValuesTable == [f \in ValueLists |-> parse_values(f)]
Values(field) == IF field \in ValueLists THEN ValuesTable[field] ELSE parse_values(field)

parse_vector_line(line) ==
    LET parts == SplitN(line, 3, PIPE)
    IN  IF Len(parts) # 3 THEN None
        ELSE LET id == ParseUnsigned(parts[1])
                 dim == ParseUnsigned(parts[2])
                 values == Values(parts[3])
             IN  IF id.ok /\ dim.ok /\ Len(values) = dim.val
                 THEN Some([id |-> id.val, vec |-> values])
                 ELSE None

\* Mutant: no line is appended.
append_vector_Skipped(file, rec) == file

append_vector(file, rec) == AppendLine(file, VectorLine(rec))

write_vectors(records) == File([i \in 1..Len(records) |-> VectorLine(records[i])])

\* map.insert(id, vec) for every line that parses, in file order
RECURSIVE VectorMap(_, _)
VectorMap(lines, map) ==
    IF lines = <<>> THEN map
    ELSE LET line == ReadLine(Head(lines))
             e == parse_vector_line(line)
         IN  VectorMap(Tail(lines),
                 IF ~IsBlank(line) /\ e.ok
                 THEN [i \in DOMAIN map \cup {e.val.id} |->
                          IF i = e.val.id THEN e.val.vec ELSE map[i]]
                 ELSE map)

EmptyMap == [i \in {} |-> <<>>]

\* The map id -> vector of the log; a missing file is an empty map.
load_vectors(file) == IF ~file.exists THEN EmptyMap ELSE VectorMap(file.lines, EmptyMap)

(***************************************************************************)
(* Signed 64-bit arithmetic                                                *)
(***************************************************************************)
Limb == 256 * 256

\* The i64 of a small integer (|n| < 2^31).
I64(n) ==
    IF n >= 0 THEN <<n % Limb, n \div Limb, 0, 0>>
    ELSE LET m == -n - 1
         IN  <<Limb - 1 - (m % Limb), Limb - 1 - (m \div Limb), Limb - 1, Limb - 1>>

I64_MIN == <<0, 0, 0, Limb \div 2>>
I64_MAX == <<Limb - 1, Limb - 1, Limb - 1, (Limb \div 2) - 1>>

IsNeg64(x) == x[4] >= Limb \div 2

\* a < b as signed 64-bit integers
RECURSIVE LessFrom(_, _, _)
LessFrom(a, b, i) ==
    IF i = 0 THEN FALSE
    ELSE IF a[i] # b[i] THEN a[i] < b[i]
    ELSE LessFrom(a, b, i - 1)

Less64(a, b) ==
    IF IsNeg64(a) # IsNeg64(b) THEN IsNeg64(a) ELSE LessFrom(a, b, 4)

RECURSIVE SubFrom(_, _, _, _)
SubFrom(a, b, i, borrow) ==
    IF i > 4 THEN <<>>
    ELSE LET t == a[i] - b[i] - borrow
         IN  IF t < 0 THEN <<t + Limb>> \o SubFrom(a, b, i + 1, 1)
             ELSE <<t>> \o SubFrom(a, b, i + 1, 0)

\* a - b: the result modulo 2^64, and whether the true difference is out of range
Sub64(a, b) ==
    LET d == SubFrom(a, b, 1, 0)
    IN  [wrapped |-> d,
         overflow |-> IsNeg64(a) # IsNeg64(b) /\ IsNeg64(d) # IsNeg64(a)]

(***************************************************************************)
(* Scoring                                                                 *)
(***************************************************************************)
FAdd(x, y) == IF x.nan \/ y.nan THEN NaN ELSE F32(x.v + y.v)

\* x * 2.0 and x * 0.5
FDouble(x) == IF x.nan THEN NaN ELSE F32(2 * x.v)
FHalve(x) == IF x.nan THEN NaN ELSE F32(x.v \div 2)

\* partial_cmp(x, y) = Some(Less)
FLess(x, y) == ~x.nan /\ ~y.nan /\ x.v < y.v

\* age_days = ((now - rec.ts).max(0) as f32) / 86400.0; recency = 1.0 / (1.0 + age_days),
\* that is 86400 / (86400 + age).  An overflowing subtraction panics in a build
\* with overflow checks and wraps in one without.  A recency below the
\* resolution of the fixed-point numbers is 0.
recency(now, ts, checked) ==
    LET d == Sub64(now, ts)
    IN  IF d.overflow /\ checked THEN [panic |-> TRUE]
        ELSE LET age == IF IsNeg64(d.wrapped) THEN I64(0) ELSE d.wrapped
                 secs == age[1] + Limb * age[2]
             IN  [panic |-> FALSE,
                  val |-> IF age[3] # 0 \/ age[4] # 0 \/ age[2] >= Limb \div 4 THEN F32(0)
                          ELSE F32((86400 * FOne) \div (86400 + secs))]

\* Mutant: a record without a stored vector gets the empty vector.
record_vector_NoFallback(rec, vectors) ==
    IF rec.id \in DOMAIN vectors THEN vectors[rec.id] ELSE <<>>

\* vectors.get(&rec.id).cloned().unwrap_or_else(|| embed_text(&rec.text))
record_vector(rec, vectors) ==
    IF rec.id \in DOMAIN vectors THEN vectors[rec.id] ELSE Embed(rec.text)

collect_vectors(records, vectors) ==
    [ids |-> [i \in 1..Len(records) |-> records[i].id],
     vecs |-> [i \in 1..Len(records) |-> record_vector(records[i], vectors)]]

Max(a, b) == IF a > b THEN a ELSE b
Min(a, b) == IF a < b THEN a ELSE b

\* A usize is 64 bits wide: four 16-bit limbs, least significant first.
USIZE_MAX == <<Limb - 1, Limb - 1, Limb - 1, Limb - 1>>

\* The usize of a small natural number
Usize(n) == <<n % Limb, n \div Limb, 0, 0>>

\* The limbs of 10 * x from limb i on, and the carry out of the top limb
RECURSIVE Mul10From(_, _, _)
Mul10From(x, i, carry) ==
    IF i > 4 THEN [limbs |-> <<>>, carry |-> carry]
    ELSE LET t == 10 * x[i] + carry
             rest == Mul10From(x, i + 1, t \div Limb)
         IN  [limbs |-> <<t % Limb>> \o rest.limbs, carry |-> rest.carry]


\* usize::saturating_mul(10): usize::MAX when 10 * limit does not fit
SaturatingMul10(limit) ==
    LET p == Mul10From(limit, 1, 0)
    IN  IF p.carry # 0 THEN USIZE_MAX ELSE p.limbs

\* k = (limit.saturating_mul(10)).max(10).min(vecs.len()), vecs.len() being small
CandidateK(limit, nvecs) ==
    LET m == SaturatingMul10(limit)
        floor == IF LessFrom(m, Usize(10), 4) THEN Usize(10) ELSE m
        k == IF LessFrom(floor, Usize(nvecs), 4) THEN floor ELSE Usize(nvecs)
    IN  k[1] + Limb * k[2]

\* The sets of ids the candidate selection can return.  With total <= k it is
\* every id; otherwise the index answers with up to k neighbours, and which
\* ones is the approximate search's choice.
hnsw_candidate_ids(ids, nvecs, total, limit) ==
    IF nvecs = 0 THEN {{}}
    ELSE LET k == CandidateK(Usize(limit), nvecs)
         IN  IF total <= k THEN {{ids[i] : i \in 1..Len(ids)}}
             ELSE {{ids[i] : i \in S} : S \in {T \in SUBSET (1..Len(ids)) : Cardinality(T) <= k}}

\* score = cosine * 2.0 + rec.weight * 0.5 + recency
score_of(rec, query_vec, vectors, now, checked) ==
    LET cosine == cosine_sim(query_vec, record_vector(rec, vectors))
        rc == recency(now, I64(rec.ts), checked)
    IN  IF rc.panic THEN [panic |-> TRUE]
        ELSE [panic |-> FALSE,
              val |-> [score |-> FAdd(FAdd(FDouble(cosine), FHalve(rec.weight)), rc.val),
                       rec |-> rec]]

\* slice::sort_by on a short slice is an insertion sort: each element moves
\* left past the elements it compares Less than.
\* scored.sort_by(|a, b| b.0.partial_cmp(&a.0).unwrap_or(Ordering::Equal))
RECURSIVE InsertByScore(_, _)
InsertByScore(s, x) ==
    IF s = <<>> THEN <<x>>
    ELSE LET prev == s[Len(s)]
         IN  IF FLess(prev.score, x.score)
             THEN Append(InsertByScore(SubSeq(s, 1, Len(s) - 1), x), prev)
             ELSE Append(s, x)

RECURSIVE SortByScoreDesc(_)
SortByScoreDesc(s) ==
    IF s = <<>> THEN <<>>
    ELSE InsertByScore(SortByScoreDesc(SubSeq(s, 1, Len(s) - 1)), s[Len(s)])

RECURSIVE InsertByTsAsc(_, _)
InsertByTsAsc(s, x) ==
    IF s = <<>> THEN <<x>>
    ELSE LET prev == s[Len(s)]
         IN  IF x.ts < prev.ts
             THEN Append(InsertByTsAsc(SubSeq(s, 1, Len(s) - 1), x), prev)
             ELSE Append(s, x)

\* Mutant: oldest first.
RECURSIVE SortByTsDesc_Ascending(_)
SortByTsDesc_Ascending(s) ==
    IF s = <<>> THEN <<>>
    ELSE InsertByTsAsc(SortByTsDesc_Ascending(SubSeq(s, 1, Len(s) - 1)), s[Len(s)])

\* records.sort_by(|a, b| b.ts.cmp(&a.ts))
RECURSIVE InsertByTs(_, _)
InsertByTs(s, x) ==
    IF s = <<>> THEN <<x>>
    ELSE LET prev == s[Len(s)]
         IN  IF prev.ts < x.ts
             THEN Append(InsertByTs(SubSeq(s, 1, Len(s) - 1), x), prev)
             ELSE Append(s, x)

RECURSIVE SortByTsDesc(_)
SortByTsDesc(s) ==
    IF s = <<>> THEN <<>>
    ELSE InsertByTs(SortByTsDesc(SubSeq(s, 1, Len(s) - 1)), s[Len(s)])

\* The outcomes of score_records: a panic, or the scored candidates in
\* descending score order.
score_records(query, records, vectors, limit, now, checked) ==
    LET query_vec == Embed(query)
        cv == collect_vectors(records, vectors)
    IN  {LET IsCand(rec) == rec.id \in cand
             picked == SelectSeq(records, IsCand)
             scored == Collect([i \in 1..Len(picked) |->
                           score_of(picked[i], query_vec, vectors, now, checked)])
         IN  IF \E i \in 1..Len(picked) : scored[i].panic THEN [panic |-> TRUE]
             ELSE [panic |-> FALSE,
                   scored |-> SortByScoreDesc([i \in 1..Len(picked) |-> scored[i].val])]
         : cand \in hnsw_candidate_ids(cv.ids, Len(cv.vecs), Len(records), limit)}

\* The first n elements (Iterator::take, Vec::truncate)
Take(s, n) == SubSeq(s, 1, Min(n, Len(s)))


(***************************************************************************)
(* Commands                                                                *)
(***************************************************************************)
\* rec.text.replace('\n', " ")
ReplaceNewlines(text) == [i \in 1..Len(text) |-> IF text[i] = LF THEN SP ELSE text[i]]

Absent == None

\* v.parse().unwrap_or(default) of an option that may be absent
UsizeOption(opt, default) ==
    IF ~opt.ok THEN default
    ELSE LET n == ParseUnsigned(opt.val) IN IF n.ok THEN n.val ELSE default

Idle ==
    [cmd |-> "none", exit |-> 0, rows |-> <<>>, fault |-> "none", opt |-> Absent,
     query |-> <<>>, before |-> <<>>, vecIds |-> {}, scored |-> <<>>, now |-> 0,
     rec |-> None]

\* The contents a file can have after a rewrite that failed: untouched (the
\* create failed) or truncated and holding the first lines only.
FailedRewrite(file, lines) ==
    {file} \cup {File(SubSeq(lines, 1, n)) : n \in 0..(Len(lines) - 1)}

now_millis == nowMs
now_secs == nowMs \div 1000

\* Mutant: the vector line is appended before the record line.
cmd_add_VectorFirst(text, kind, weight, fault) ==
    /\ last.cmd = "none"
    /\ Len(recLog.lines) < MaxRecords
    /\ Len(vecLog.lines) < MaxRecords
    /\ UNCHANGED <<nowMs, arg, ret>>
    /\ IF ~text.ok \/ fault = "mkdir"
       THEN /\ last' = [Idle EXCEPT !.cmd = "add", !.exit = 1,
                                    !.fault = IF text.ok THEN fault ELSE "none"]
            /\ UNCHANGED <<recLog, vecLog>>
       ELSE LET w == IF weight.ok /\ ParseF32(weight.val).ok
                     THEN ParseF32(weight.val).val ELSE F32(FOne)
                record == Record(now_millis, now_secs,
                                 IF kind.ok THEN kind.val
                                 ELSE <<"s", "u", "m", "m", "a", "r", "y">>,
                                 w, text.val)
            IN  /\ recLog' = IF fault = "recWrite" THEN recLog
                             ELSE append_record(recLog, record)
                /\ vecLog' = IF fault = "vecWrite" THEN vecLog
                             ELSE append_vector(vecLog, record)
                /\ last' = [Idle EXCEPT !.cmd = "add", !.fault = fault,
                                        !.rec = Some(record),
                                        !.before = load_records(recLog),
                                        !.exit = IF fault = "none" THEN 0 ELSE 1]

\* memstore add: the record line is appended, then the vector line.
cmd_add(text, kind, weight, fault) ==
    /\ last.cmd = "none"
    /\ Len(recLog.lines) < MaxRecords
    /\ Len(vecLog.lines) < MaxRecords
    /\ UNCHANGED <<nowMs, arg, ret>>
    /\ IF ~text.ok \/ fault = "mkdir"
       THEN /\ last' = [Idle EXCEPT !.cmd = "add", !.exit = 1,
                                    !.fault = IF text.ok THEN fault ELSE "none"]
            /\ UNCHANGED <<recLog, vecLog>>
       ELSE LET w == IF weight.ok /\ ParseF32(weight.val).ok
                     THEN ParseF32(weight.val).val ELSE F32(FOne)
                record == Record(now_millis, now_secs,
                                 IF kind.ok THEN kind.val
                                 ELSE <<"s", "u", "m", "m", "a", "r", "y">>,
                                 w, text.val)
            IN  /\ recLog' = IF fault = "recWrite" THEN recLog
                             ELSE append_record(recLog, record)
                /\ vecLog' = IF fault \in {"recWrite", "vecWrite"} THEN vecLog
                             ELSE append_vector(vecLog, record)
                /\ last' = [Idle EXCEPT !.cmd = "add", !.fault = fault,
                                        !.rec = Some(record),
                                        !.before = load_records(recLog),
                                        !.exit = IF fault = "none" THEN 0 ELSE 1]

\* The builds that can be told apart on these records: one with overflow checks
\* and one without differ only where now - rec.ts overflows.
Builds(records, now) ==
    IF \E i \in 1..Len(records) : Sub64(now, I64(records[i].ts)).overflow
    THEN BOOLEAN ELSE {FALSE}

cmd_search(query, limitOpt, fault) ==
    /\ last.cmd = "none"
    /\ fault = "recRead" => recLog.exists
    /\ fault = "vecRead" => vecLog.exists
    /\ UNCHANGED <<recLog, vecLog, nowMs, arg, ret>>
    /\ LET limit == UsizeOption(limitOpt, DefaultSearchLimit)
           base == [Idle EXCEPT !.cmd = "search", !.fault = fault, !.opt = limitOpt,
                                !.now = now_secs]
       IN  IF ~query.ok \/ fault = "recRead"
           THEN last' = [base EXCEPT !.exit = 1,
                                     !.fault = IF query.ok THEN fault ELSE "none"]
           ELSE LET records == load_records(recLog)
                    \* load_vectors(&vec_path).unwrap_or_default()
                    vectors == IF fault = "vecRead" THEN EmptyMap ELSE load_vectors(vecLog)
                IN  \E checked \in Builds(records, I64(now_secs)) :
                    \E out \in score_records(query.val, records, vectors, limit,
                                             I64(now_secs), checked) :
                        IF out.panic
                        THEN last' = [base EXCEPT !.exit = 101, !.query = query.val,
                                                  !.before = records,
                                                  !.vecIds = DOMAIN vectors]
                        ELSE LET shown == Take(out.scored, limit)
                             IN  last' = [base EXCEPT
                                     !.query = query.val,
                                     !.before = records,
                                     !.vecIds = DOMAIN vectors,
                                     !.scored = out.scored,
                                     !.rows = [i \in 1..Len(shown) |->
                                         [score |-> shown[i].score,
                                          kind |-> shown[i].rec.kind,
                                          id |-> shown[i].rec.id,
                                          ts |-> shown[i].rec.ts,
                                          text |-> ReplaceNewlines(shown[i].rec.text)]]]

cmd_recent(limitOpt, fault) ==
    /\ last.cmd = "none"
    /\ fault = "recRead" => recLog.exists
    /\ UNCHANGED <<recLog, vecLog, nowMs, arg, ret>>
    /\ LET limit == UsizeOption(limitOpt, DefaultRecentLimit)
           base == [Idle EXCEPT !.cmd = "recent", !.fault = fault, !.opt = limitOpt]
       IN  IF fault = "recRead" THEN last' = [base EXCEPT !.exit = 1]
           ELSE LET records == load_records(recLog)
                    shown == Take(SortByTsDesc(records), limit)
                IN  last' = [base EXCEPT
                        !.before = records,
                        !.rows = [i \in 1..Len(shown) |->
                            [kind |-> shown[i].kind, id |-> shown[i].id,
                             ts |-> shown[i].ts,
                             text |-> ReplaceNewlines(shown[i].text)]]]

cmd_compact(keepOpt, fault) ==
    /\ last.cmd = "none"
    /\ fault = "recRead" => recLog.exists
    /\ UNCHANGED <<nowMs, arg, ret>>
    /\ LET keep == UsizeOption(keepOpt, DefaultKeep)
           base == [Idle EXCEPT !.cmd = "compact", !.fault = fault, !.opt = keepOpt]
       IN  IF fault = "recRead"
           THEN /\ last' = [base EXCEPT !.exit = 1]
                /\ UNCHANGED <<recLog, vecLog>>
           ELSE LET loaded == load_records(recLog)
                    sorted == SortByTsDesc(loaded)
                    records == IF Len(sorted) > keep THEN Take(sorted, keep) ELSE sorted
                IN  /\ last' = [base EXCEPT !.before = loaded,
                                            !.exit = IF fault = "none" THEN 0 ELSE 1]
                    /\ IF fault = "recWrite"
                       THEN /\ recLog' \in FailedRewrite(recLog, write_records(records).lines)
                            /\ UNCHANGED vecLog
                       ELSE /\ recLog' = write_records(records)
                            /\ IF fault = "vecWrite"
                               THEN vecLog' \in FailedRewrite(vecLog,
                                                    write_vectors(records).lines)
                               ELSE vecLog' = write_vectors(records)

(***************************************************************************)
(* The environment                                                         *)
(***************************************************************************)
Times == {1000 * sec : sec \in 1..MaxTime}

\* The process of the last invocation has ended; the next one can start.
Return ==
    /\ last.cmd # "none"
    /\ last' = Idle
    /\ UNCHANGED <<recLog, vecLog, nowMs, arg, ret>>

\* Time passes between invocations.
Tick ==
    /\ last.cmd = "none"
    /\ nowMs + 1000 \in Times
    /\ nowMs' = nowMs + 1000
    /\ UNCHANGED <<recLog, vecLog, last, arg, ret>>

\* The user deletes the vector log between invocations.
DeleteVecLog ==
    /\ last.cmd = "none"
    /\ vecLog.exists
    /\ vecLog' = NoFile
    /\ UNCHANGED <<recLog, nowMs, last, arg, ret>>

(***************************************************************************)
(* The store: any sequence of invocations                                  *)
(***************************************************************************)
Opt(S) == {Absent} \cup {Some(x) : x \in S}

Call(opts, fault) == [opts |-> opts, fault |-> fault]

\* The options of the add invocations: --text, --kind, --weight
AddNoText == [text |-> Absent, kind |-> Absent, weight |-> Absent]
AddPlain == [text |-> Some(<<"a">>), kind |-> Absent, weight |-> Absent]
AddPipeKind ==
    [text |-> Some(<<"b", LF, "a">>), kind |-> Some(<<PIPE, "2">>), weight |-> Some(<<"1">>)]

\* The add invocations: each option list without a fault, one with each fault
AddCalls ==
    {Call(a, "none") : a \in {AddNoText, AddPlain, AddPipeKind}}
    \cup {Call(AddPlain, f) : f \in {"mkdir", "recWrite", "vecWrite"}}

\* The search invocations: --query, --limit
Queries == {<<"a">>}
LimitArgs == {<<"0">>, <<"-", "1">>}
SearchCalls ==
    {Call([query |-> q, limit |-> Absent], "none") : q \in Opt(Queries)}
    \cup {Call([query |-> Some(q), limit |-> Some(l)], "none") : q \in Queries, l \in LimitArgs}
    \cup {Call([query |-> Some(q), limit |-> Absent], f) :
            q \in Queries, f \in {"recRead", "vecRead"}}

\* The recent invocations: --limit
RecentLimitArgs == {<<"1">>}
RecentCalls ==
    {Call([limit |-> l], "none") : l \in Opt(RecentLimitArgs)}
    \cup {Call([limit |-> Absent], "recRead")}

\* The compact invocations: --keep
KeepArgs == {<<"1">>}
CompactCalls ==
    {Call([keep |-> k], "none") : k \in Opt(KeepArgs)}
    \cup {Call([keep |-> Some(k)], f) :
            k \in KeepArgs, f \in {"recRead", "recWrite", "vecWrite"}}

\* No function has been applied yet.
NoCall == [op |-> "none"]

Init ==
    /\ recLog = NoFile
    /\ vecLog = NoFile
    /\ nowMs = 1000
    /\ last = Idle
    /\ arg = NoCall
    /\ ret = None

Add == \E c \in AddCalls : cmd_add(c.opts.text, c.opts.kind, c.opts.weight, c.fault)

Search == \E c \in SearchCalls : cmd_search(c.opts.query, c.opts.limit, c.fault)

Recent == \E c \in RecentCalls : cmd_recent(c.opts.limit, c.fault)

Compact == \E c \in CompactCalls : cmd_compact(c.opts.keep, c.fault)

Next == Add \/ Search \/ Recent \/ Compact \/ Return \/ Tick \/ DeleteVecLog

Spec == Init /\ [][Next]_vars

(***************************************************************************)
(* The functions on their own: each action applies one function of the     *)
(* program to an input drawn from a bounded set                            *)
(***************************************************************************)
\* Characters with a role in escape, unescape and the line format
Alphabet == {"a", "n", BSL, PIPE, LF, CR}

\* Records for the round trip through the record log: every kind with one
\* text, and every text with one kind.
RoundTripRecords ==
    {Record(7, ts, kind, F32(FOne \div 2), <<"a">>) :
        ts \in {-1, 5}, kind \in StringsUpTo(Alphabet, MaxKindLen)}
    \cup {Record(7, 5, <<"k">>, F32(FOne), text) : text \in StringsUpTo(Alphabet, MaxLen)}

\* Vector-log lines "id|dim|values" with few components, and a line as
\* write_vectors produces it
SmallVectorLines ==
    {[id |-> <<"7">>, dim |-> dim, values |-> values] :
        dim \in {<<"2">>, <<"3">>, <<"x">>},
        values \in {<<>>, <<"1">>, <<"0", ".", "5", ",", "1">>,
                    <<"0", ".", "5", ",", "x", ",", "1">>,
                    <<"1", ",", "1", ",", "1">>}}
    \cup {[id |-> <<"7">>, dim |-> FmtNat(VECTOR_DIM), values |-> v] :
            v \in {ValueList(<<"a">>), <<"0", ".", "5", ",", "1">>}}

Timestamps == {I64_MIN, I64(-5), I64(0), I64(1), I64(3), I64(86400), I64_MAX}

InitPure == Init

\* unescape(escape(s))
EscapeUnescape ==
    \E s \in StringsUpTo(Alphabet, MaxLen) :
        /\ arg = NoCall
        /\ arg' = [op |-> "escape", s |-> s]
        /\ ret' = unescape(escape(s))
        /\ UNCHANGED <<recLog, vecLog, nowMs, last>>

\* append_record or write_records into an empty log, then load_records
StoreAndLoad ==
    \E rec \in RoundTripRecords, how \in {"append_record", "write_records"} :
        /\ arg = NoCall
        /\ arg' = [op |-> how, rec |-> rec]
        /\ ret' = load_records(IF how = "append_record" THEN append_record(NoFile, rec)
                               ELSE write_records(<<rec>>))
        /\ UNCHANGED <<recLog, vecLog, nowMs, last>>

\* load_vectors of a vector log of one line
LoadVectorLine ==
    \E l \in SmallVectorLines :
        /\ arg = NoCall
        /\ arg' = [op |-> "load_vectors", dim |-> l.dim, values |-> l.values]
        /\ ret' = load_vectors(File(<<l.id \o <<PIPE>> \o l.dim \o <<PIPE>> \o l.values>>))
        /\ UNCHANGED <<recLog, vecLog, nowMs, last>>

\* The recency terms of an older and a newer record at the same time, in a
\* build with overflow checks or in one without
Recency ==
    \E now \in {I64(1), I64(3), I64(86400)}, older \in Timestamps, newer \in Timestamps,
       checked \in BOOLEAN :
        /\ arg = NoCall
        /\ Less64(older, newer)
        /\ arg' = [op |-> "recency", now |-> now, older |-> older, newer |-> newer]
        /\ ret' = [older |-> recency(now, older, checked),
                   newer |-> recency(now, newer, checked)]
        /\ UNCHANGED <<recLog, vecLog, nowMs, last>>

\* The call has returned; the next one can be made.
Forget ==
    /\ arg # NoCall
    /\ arg' = NoCall
    /\ ret' = None
    /\ UNCHANGED <<recLog, vecLog, nowMs, last>>

NextPure == EscapeUnescape \/ StoreAndLoad \/ LoadVectorLine \/ Recency \/ Forget

SpecPure == InitPure /\ [][NextPure]_vars

(***************************************************************************)
(* The store under invocations that all complete successfully              *)
(***************************************************************************)
AddEmptyText == [text |-> Some(<<>>), kind |-> Absent, weight |-> Absent]

\* An invocation that succeeds and whose record line load_records skips
AddUnloadable == [text |-> Some(<<"a">>), kind |-> Some(<<PIPE, "x">>), weight |-> Absent]

OkAddCalls ==
    {Call(a, "none") : a \in {AddPlain, AddPipeKind, AddEmptyText, AddUnloadable}}

OkCompactCalls == {Call([keep |-> k], "none") : k \in Opt(KeepArgs \cup {<<"0">>})}

AddOk == \E c \in OkAddCalls : cmd_add(c.opts.text, c.opts.kind, c.opts.weight, c.fault)

CompactOk == \E c \in OkCompactCalls : cmd_compact(c.opts.keep, c.fault)

NextOk == AddOk \/ CompactOk \/ Return \/ Tick

SpecOk == Init /\ [][NextOk]_vars

(***************************************************************************)
(* Ranking: searches of stores of up to MaxStore records, and the          *)
(* candidate count on its own                                              *)
(***************************************************************************)
\* The record the i-th add invocation constructs.  In the family "text" the
\* texts alternate and the weight is the default; in the family "weight" the
\* text is the same and --weight grows with i; the family "nan" is "weight"
\* with --weight NaN in the second invocation; the family "dup" is "text" with
\* two invocations in each millisecond, in the others there is one.
RankFamilies == {"text", "weight", "nan", "dup"}
RankRecord(i, family) ==
    Record(1000 + (IF family = "dup" THEN (i + 1) \div 2 ELSE i),
           1,
           <<"s", "u", "m", "m", "a", "r", "y">>,
           IF family = "nan" /\ i = 2 THEN NaN
           ELSE IF family \in {"weight", "nan"} THEN F32(i * 1000)
           ELSE F32(FOne),
           IF family \in {"weight", "nan"} \/ i % 2 = 1 THEN <<"a">> ELSE <<"b", LF, "a">>)

\* The stores n successful add invocations leave
RankStores ==
    {Collect([i \in 1..n |-> RankRecord(i, family)]) :
        n \in 0..MaxStore, family \in RankFamilies}

RankLimitArgs == {<<"0">>, <<"1">>, <<"2">>}
RankCalls ==
    {Call([query |-> Some(q), limit |-> l], "none") : q \in Queries, l \in Opt(RankLimitArgs)}

\* Limits around the values where 10 * limit reaches 10 and where it stops
\* fitting in a usize; the fifth is the least limit whose product wraps.
WideLimits ==
    {Usize(0), Usize(1), Usize(2), Usize(Limb),
     <<39322, 39321, 39321, 6553>>, <<0, 0, 0, Limb \div 2>>, USIZE_MAX}

InitRank ==
    /\ \E store \in RankStores :
           /\ recLog = write_records(store)
           /\ vecLog = write_vectors(store)
    /\ nowMs = 2000
    /\ last = Idle
    /\ arg = NoCall
    /\ ret = None

SearchRank == \E c \in RankCalls : cmd_search(c.opts.query, c.opts.limit, c.fault)

\* The candidate count of a limit and a number of vectors, on the empty store
CandidateCount ==
    \E limit \in WideLimits, n \in 0..MaxStore :
        /\ arg = NoCall
        /\ last.cmd = "none"
        /\ recLog.lines = <<>>
        /\ arg' = [op |-> "candidate_k", limit |-> limit, n |-> n]
        /\ ret' = CandidateK(limit, n)
        /\ UNCHANGED <<recLog, vecLog, nowMs, last>>

NextRank == SearchRank \/ Return \/ CandidateCount \/ Forget

SpecRank == InitRank /\ [][NextRank]_vars

(***************************************************************************)
(* Properties of the functions (SpecPure)                                  *)
(***************************************************************************)
\* C1: a record written to an empty record log with append_record or
\* write_records and loaded with load_records comes back as exactly one
\* record, field-wise equal to the one written.  Refuted: a kind holding
\* '|' is split by parse_record_line, and a trailing carriage return is
\* dropped with the line ending.
C1_RoundTrip ==
    arg.op \in {"append_record", "write_records"} => ret = <<arg.rec>>

\* C1, the failing case: the record with kind "|" is written by append_record
\* and the log loads as no record at all.
C1_PipeInKindLost ==
    /\ arg.op = "append_record"
    /\ arg.rec.kind = <<PIPE>>
    /\ ret = <<>>

\* C5: load_vectors keeps a line exactly when its declared dimension is 256
\* and the number of floats parsed from its value list is that dimension.
\* Refuted: a line declaring another dimension is kept when its value count
\* matches the declaration.
C5_AcceptsIffDim256 ==
    arg.op = "load_vectors" =>
        LET dim == ParseUnsigned(arg.dim)
            n == Len(parse_values(arg.values))
        IN  (ret # EmptyMap) <=> (dim.ok /\ dim.val = VECTOR_DIM /\ n = dim.val)

\* C5, the failing case: the line "7|2|0.5,1" is kept as a vector of two
\* components.
C5_TwoComponentsKept ==
    /\ arg.op = "load_vectors"
    /\ arg.dim = <<"2">>
    /\ 7 \in DOMAIN ret
    /\ Len(ret[7]) = 2

\* C9: unescape(escape(s)) = s for every string s.
C9_EscapeRoundTrip ==
    arg.op = "escape" => ret = arg.s

\* C9, its case: a string with a backslash directly followed by 'n' and by
\* '|' has made the round trip.
C9_Witness ==
    /\ arg.op = "escape"
    /\ arg.s = <<BSL, "n", PIPE>>
    /\ ret = arg.s

\* C10: for every ts and now the recency term is computed, and of two
\* records the older never gets the larger term.  Refuted: for
\* ts = i64::MIN the subtraction now - ts overflows; it panics in a build
\* with overflow checks, and wraps to a negative age, clamped to 0, in one
\* without, so the oldest record gets recency 1.0.
C10_RecencyMonotone ==
    arg.op = "recency" =>
        /\ ~ret.older.panic
        /\ ~ret.newer.panic
        /\ ret.older.val.v <= ret.newer.val.v

\* C10, the failing case: at now = 1 the record with ts = i64::MIN gets
\* recency 1.0 and the record with ts = 0 gets less.
C10_OldestGetsOne ==
    /\ arg.op = "recency"
    /\ arg.older = I64_MIN
    /\ ~ret.older.panic /\ ~ret.newer.panic
    /\ ret.older.val = F32(FOne)
    /\ ret.newer.val.v < FOne

(***************************************************************************)
(* Properties of the store (Spec)                                          *)
(***************************************************************************)
\* Number of positions of seq that hold x
Count(seq, x) == Cardinality({i \in 1..Len(seq) : seq[i] = x})

TsOf(records) == [i \in 1..Len(records) |-> records[i].ts]

\* C2: after a successful compact --keep k on a store of N loadable records
\* the record log holds exactly min(k, N) records, the kept timestamps are
\* among those of the store, and every kept record has ts >= the ts of every
\* discarded one.
C2_CompactKeepsNewest ==
    (last.cmd = "compact" /\ last.exit = 0) =>
        LET before == TsOf(last.before)
            after == TsOf(load_records(recLog))
            k == UsizeOption(last.opt, DefaultKeep)
        IN  /\ Len(after) = Min(k, Len(before))
            /\ \A i \in 1..Len(after) : Count(after, after[i]) <= Count(before, after[i])
            /\ \A i \in 1..Len(after), j \in 1..Len(before) :
                   Count(before, before[j]) > Count(after, before[j])
                       => after[i] >= before[j]

\* C2, its case: compact --keep 1 has discarded the older of two records
\* with different timestamps.
C2_Witness ==
    /\ last.cmd = "compact" /\ last.exit = 0
    /\ last.opt = Some(<<"1">>)
    /\ Len(last.before) = 2
    /\ last.before[1].ts < last.before[2].ts
    /\ TsOf(load_records(recLog)) = <<last.before[2].ts>>

\* C3: after a successful compact every record that load_records returns has
\* an entry under its id in the map load_vectors returns, with exactly 256
\* components.
C3_CompactVectorsMatch ==
    (last.cmd = "compact" /\ last.exit = 0) =>
        LET records == load_records(recLog)
            vectors == load_vectors(vecLog)
        IN  \A i \in 1..Len(records) :
                /\ records[i].id \in DOMAIN vectors
                /\ Len(vectors[records[i].id]) = 256

\* C3, its case: a successful compact has left a record in the record log.
C3_Witness ==
    /\ last.cmd = "compact" /\ last.exit = 0
    /\ Len(last.before) = 2
    /\ Len(load_records(recLog)) >= 1
    /\ DOMAIN load_vectors(vecLog) # {}

\* C4: the records load_records returns are the records add constructed:
\* after a successful add the log loads as what it loaded as before,
\* followed by the constructed record.  Refuted through C1: a kind holding
\* '|' comes back as another kind, weight and text.
C4_AddedRecordUnchanged ==
    (last.cmd = "add" /\ last.exit = 0) =>
        load_records(recLog) = Append(last.before, last.rec.val)

\* C4, the failing case: add --kind "|2" --weight 1 with the text "b", newline,
\* "a" has succeeded and the record loads with kind "\", weight 2 and the text
\* "1|b", newline, "a".
C4_LoadedWithOtherFields ==
    /\ last.cmd = "add" /\ last.exit = 0
    /\ last.rec.val.kind = <<PIPE, "2">>
    /\ LET records == load_records(recLog)
       IN  /\ Len(records) = 1
           /\ records[1].kind = <<BSL>>
           /\ records[1].weight = F32(2 * FOne)
           /\ records[1].text = <<"1", PIPE, "b", LF, "a">>

\* C6: search with a --limit that is an integer <= 0 prints no row.
\* Refuted: a negative limit is not a usize, so the default limit 3 is used.
C6_NonPositiveLimitPrintsNothing ==
    (last.cmd = "search" /\ last.opt \in {Some(<<"0">>), Some(<<"-", "1">>)}) =>
        last.rows = <<>>

\* C6, the failing case: search --limit -1 has printed a row.
C6_NegativeLimitPrints ==
    /\ last.cmd = "search"
    /\ last.opt = Some(<<"-", "1">>)
    /\ last.rows # <<>>

\* C7: a command during which a read or a write of a log fails with an I/O
\* error ends with a non-zero exit status.  Refuted: search reads the vector
\* log with unwrap_or_default, so the error is taken for an empty map.
C7_IoErrorExitsNonZero ==
    (last.cmd # "none" /\ last.fault # "none") => last.exit # 0

\* C7, the failing case: search has exited 0 although reading the vector log
\* failed.
C7_SearchIgnoresVectorReadError ==
    /\ last.cmd = "search"
    /\ last.fault = "vecRead"
    /\ last.exit = 0

\* The score of a record whose vector is the embedding of its text
RefScore(rec, query, now) ==
    FAdd(FAdd(FDouble(cosine_sim(Embed(query), Embed(rec.text))), FHalve(rec.weight)),
         recency(I64(now), I64(rec.ts), FALSE).val)

\* The ranking of a store all of whose vectors are the embeddings of the texts
RefRanking(records, query, now) ==
    SortByScoreDesc(Collect([i \in 1..Len(records) |->
        [score |-> RefScore(records[i], query, now), rec |-> records[i]]]))

C11_RecordLogFirst ==
    [][/\ (last'.cmd \in {"add", "compact"} /\ last'.fault = "recWrite")
              => vecLog' = vecLog
       /\ (last'.cmd = "add" /\ vecLog' # vecLog)
              => recLog' = append_record(recLog, last'.rec.val)
       /\ (last'.cmd = "compact" /\ vecLog' # vecLog)
              => /\ last'.fault \notin {"recRead", "recWrite"}
                 /\ Len(recLog'.lines) =
                        Min(UsizeOption(last'.opt, DefaultKeep), Len(last'.before))
      ]_vars

\* C11, its case: the record-log write of a compact has failed after the
\* file was truncated, and the vector log still holds its lines.
C11_Witness ==
    /\ last.cmd = "compact" /\ last.fault = "recWrite"
    /\ Len(last.before) = 2
    /\ recLog.lines = <<>>
    /\ Len(vecLog.lines) = 2

(***************************************************************************)
(* Properties of the ranking (SpecRank)                                    *)
(***************************************************************************)
\* min(max(10 * limit, 10), n) for a limit of 64 bits and a small n
RefK(limit, n) ==
    IF limit[2] # 0 \/ limit[3] # 0 \/ limit[4] # 0 \/ limit[1] > n THEN n
    ELSE Min(Max(10 * limit[1], 10), n)

\* The row search prints for a record and its score
RowOf(rec, score) ==
    [score |-> score, kind |-> rec.kind, id |-> rec.id, ts |-> rec.ts,
     text |-> ReplaceNewlines(rec.text)]

\* The rows of all the records of the last search's store, in log order, each
\* with the score the vector map of the store gives it
StoreRows ==
    LET vectors == load_vectors(vecLog)
        query_vec == Embed(last.query)
    IN  Collect([i \in 1..Len(last.before) |->
            RowOf(last.before[i],
                  score_of(last.before[i], query_vec, vectors, I64(last.now),
                           FALSE).val.score)])

\* C12: the candidate count is k = min(max(10 * limit, 10), N), the product
\* saturating; a search scores the records of at most k candidate ids, and when
\* N <= max(10, 10 * limit) it scores every record and prints exactly the
\* min(limit, N) highest-scoring records of the whole store: each row is a
\* record of the store, no record is printed more often than it is stored, and
\* fewer than j records of the store score higher than the j-th row.
C12_CandidateCountAndBypass ==
    /\ arg.op = "candidate_k" => ret = RefK(arg.limit, arg.n)
    /\ (last.cmd = "search" /\ last.exit = 0) =>
           LET N == Len(last.before)
               limit == UsizeOption(last.opt, DefaultSearchLimit)
               rows == last.rows
           IN  /\ Cardinality({last.scored[i].rec.id : i \in 1..Len(last.scored)})
                      <= Min(Max(10 * limit, 10), N)
               /\ N <= Max(10, 10 * limit) =>
                      /\ Len(last.scored) = N
                      /\ Len(rows) = Min(limit, N)
                      /\ LET all == StoreRows
                         IN  \A j \in 1..Len(rows) :
                                 /\ Cardinality({i \in 1..Len(rows) : rows[i] = rows[j]})
                                        <= Cardinality({i \in 1..N : all[i] = rows[j]})
                                 /\ Cardinality({i \in 1..N :
                                        FLess(rows[j].score, all[i].score)}) < j

\* C12, the failing case: a store of three records, the second added with
\* --weight NaN, is searched with --limit 2; the index is bypassed, and the
\* record added last, which scores higher than the first row, is not printed.
C12_HighestScoringOmitted ==
    /\ last.cmd = "search" /\ last.exit = 0
    /\ Len(last.before) = 3
    /\ last.opt = Some(<<"2">>)
    /\ Len(last.scored) = 3
    /\ Len(last.rows) = 2
    /\ \A j \in 1..2 : last.rows[j].id # 1003
    /\ FLess(last.rows[1].score, last.scored[3].score)
    /\ last.scored[3].rec.id = 1003

\* C13: the rows search prints are candidates in non-increasing score order,
\* at most limit of them; two candidates whose scores are equal or cannot be
\* compared keep the relative order of their records in the record log; the
\* sort does not abort the command.
C13_SortedStableNoAbort ==
    (last.cmd = "search" /\ last.fault = "none" /\ last.query # <<>>) =>
        LET limit == UsizeOption(last.opt, DefaultSearchLimit)
            rows == last.rows
            scored == last.scored
            Pos(rec) == {p \in 1..Len(last.before) : last.before[p] = rec}
        IN  /\ last.exit = 0
            /\ Len(rows) <= limit
            /\ \A j \in 1..Len(rows) : rows[j] = RowOf(scored[j].rec, scored[j].score)
            /\ \A i, j \in 1..Len(rows) :
                   i < j => ~FLess(rows[i].score, rows[j].score)
            /\ \A i, j \in 1..Len(scored) :
                   (/\ i < j
                    /\ ~FLess(scored[i].score, scored[j].score)
                    /\ ~FLess(scored[j].score, scored[i].score))
                       => \E p \in Pos(scored[i].rec), q \in Pos(scored[j].rec) : p < q

\* C13, the failing case: the scores in log order are x, NaN, y with x < y;
\* no element moves, and the row of score x is printed before the row of
\* score y.
C13_LowerScorePrintedFirst ==
    /\ last.cmd = "search" /\ last.exit = 0
    /\ Len(last.rows) = 3
    /\ last.rows[2].score.nan
    /\ FLess(last.rows[1].score, last.rows[3].score)

\* The scores a record has with the embedding of its own text for its vector:
\* the embedding as add stores it in the vector log, or the text re-embedded
OwnScores(rec, query, now) ==
    {FAdd(FAdd(FDouble(cosine_sim(Embed(query), vec)), FHalve(rec.weight)),
          recency(I64(now), I64(rec.ts), FALSE).val) :
        vec \in {Values(ValueList(rec.text)), Embed(rec.text)}}

\* C14: every record search scores is scored with the embedding of its own
\* text, stored or re-embedded, also when two records have the same id and
\* different texts.
C14_OwnTextVector ==
    (last.cmd = "search" /\ last.exit = 0) =>
        \A i \in 1..Len(last.scored) :
            last.scored[i].score
                \in OwnScores(last.scored[i].rec, last.query, last.now)

\* C14, the failing case: two records added in the same millisecond with
\* different texts are searched, and the first is scored as the second is,
\* not as its own text is.
C14_ScoredWithOtherText ==
    /\ last.cmd = "search" /\ last.exit = 0
    /\ Len(last.before) = 2
    /\ last.before[1].id = last.before[2].id
    /\ last.before[1].text # last.before[2].text
    /\ \E i \in 1..Len(last.scored) :
           /\ last.scored[i].rec = last.before[1]
           /\ last.scored[i].score
                  \notin OwnScores(last.before[1], last.query, last.now)

(***************************************************************************)
(* Properties of the store under successful invocations (SpecOk)           *)
(***************************************************************************)
\* The id field of a line of either log: the text before the first '|'
LineId(line) == SplitN(line, 2, PIPE)[1]

\* C15: after any sequence of add and compact invocations that each complete
\* successfully, from the empty store, the record log and the vector log have
\* the same number of lines, the i-th line of each carries the same id, and
\* every record load_records returns has an entry under its id in the map
\* load_vectors returns.
C15_Lockstep ==
    /\ Len(recLog.lines) = Len(vecLog.lines)
    /\ \A i \in 1..Len(recLog.lines) :
           LineId(recLog.lines[i]) = LineId(vecLog.lines[i])
    /\ LET records == load_records(recLog)
           vectors == load_vectors(vecLog)
       IN  \A i \in 1..Len(records) : records[i].id \in DOMAIN vectors

\* C15, its case: two records added in different seconds are compacted with
\* --keep 1, and each log holds the one line of the newer record.
C15_Witness ==
    /\ last.cmd = "compact" /\ last.exit = 0
    /\ Len(last.before) = 2
    /\ last.before[1].ts < last.before[2].ts
    /\ Len(recLog.lines) = 1
    /\ Len(vecLog.lines) = 1
    /\ LineId(recLog.lines[1]) = FmtNat(last.before[2].id)
    /\ Len(load_records(recLog)) = 1

====
